---- MODULE Spec2Model ----
(***************************************************************************)
(* Model of app.py: build_urls / hyphenate, scrape_jobs (the Firecrawl     *)
(* extraction client with its 3-attempt retry loop) and run_all (the       *)
(* per-site orchestrator with the secondary "no results" GET).             *)
(*                                                                         *)
(* Text is a sequence of tokens: user input is a sequence of one-character *)
(* strings, template literals are multi-character tokens.  An f-string is  *)
(* the concatenation of its parts, and `x in text` is Contains(text, x).   *)
(***************************************************************************)
EXTENDS Integers, Sequences, FiniteSets, TLC

VARIABLES
    apiKey,     \* API_KEY is truthy (the credential is configured)
    job_title,  \* run_all's argument
    location,   \* run_all's argument
    pc,         \* run_all's position
    idx,        \* 1-based position of the for loop in urls.items()
    out,        \* run_all's out dict, in insertion order
    jobs,       \* run_all's local jobs
    spc,        \* scrape_jobs' position
    attempt,    \* scrape_jobs' loop variable
    results,    \* the value scrape_jobs returns
    exc,        \* the exception being handled or raised
    cause,      \* the exception a raising handler caught
    net,        \* the network call in flight
    lastBody,   \* the body of the current attempt's 2xx response
    log,        \* events of the current scrape_jobs call
    scraped,    \* per processed site, how its scrape_jobs call ended
    nPost,      \* POSTs issued since run_all started
    nGet,       \* GETs issued since run_all started
    urls        \* run_all's urls, the ordered mapping build_urls returned

vars == <<apiKey, job_title, location, pc, idx, out, jobs, spc, attempt,
          results, exc, cause, net, lastBody, log, scraped, nPost, nGet,
          urls>>

----------------------------------------------------------------------------
(* Bounds of the model *)

\* number of entries of urls.items() the orchestrator model iterates over
NSites == 2
\* longest record list the extraction API returns in the model
MaxRecords == 11
\* longest job_title / location explored by the URL-builder specification
MaxLen == 3

(* Program constants *)

MaxAttempts == 3
LastAttempt == 2
JobLimit == 10
PostTimeoutSecs == 120
NoTimeout == 0

----------------------------------------------------------------------------
(* Text helpers *)

Whitespace == {" ", "\t"}

Min(a, b) == IF a < b THEN a ELSE b

\* Python's `sub in s` on token sequences
Contains(s, sub) ==
    \E i \in 0..(Len(s) - Len(sub)) : SubSeq(s, i + 1, i + Len(sub)) = sub

RECURSIVE LStrip(_)
LStrip(s) ==
    IF s = <<>> THEN s
    ELSE IF Head(s) \in Whitespace THEN LStrip(Tail(s)) ELSE s

RECURSIVE RStrip(_)
RStrip(s) ==
    IF s = <<>> THEN s
    ELSE IF s[Len(s)] \in Whitespace THEN RStrip(SubSeq(s, 1, Len(s) - 1)) ELSE s

\* str.strip()
Strip(s) == RStrip(LStrip(s))

LowerChar(c) ==
    CASE c = "D" -> "d"
      [] c = "A" -> "a"
      [] c = "L" -> "l"
      [] OTHER -> c

\* str.lower()
Lower(s) == [i \in 1..Len(s) |-> LowerChar(s[i])]

\* re.sub(r"\s+", "-", s)
RECURSIVE SubWhitespaceRuns(_)
SubWhitespaceRuns(s) ==
    IF s = <<>> THEN <<>>
    ELSE IF Head(s) \in Whitespace
         THEN <<"-">> \o SubWhitespaceRuns(LStrip(Tail(s)))
         ELSE <<Head(s)>> \o SubWhitespaceRuns(Tail(s))

hyphenate(s) == SubWhitespaceRuns(Lower(Strip(s)))

\* the ordered mapping build_urls returns, as a sequence of items
build_urls(jt, loc) ==
    LET job_dash == hyphenate(jt)
        loc_dash == hyphenate(loc)
    IN  << [site |-> "Adzuna",
            url  |-> <<"https://www.adzuna.co.uk/jobs/search?q=">> \o jt
                     \o <<"&w=">> \o loc],
           [site |-> "CWJobs",
            url  |-> <<"https://www.cwjobs.co.uk/jobs/">> \o job_dash
                     \o <<"/in-">> \o loc_dash
                     \o <<"?radius=10&searchOrigin=Resultlist_top-search">>],
           [site |-> "Indeed",
            url  |-> <<"https://uk.indeed.com/jobs?q=">> \o jt
                     \o <<"&l=">> \o loc],
           [site |-> "Reed",
            url  |-> <<"https://www.reed.co.uk/jobs/">> \o job_dash
                     \o <<"-jobs-in-">> \o loc_dash],
           [site |-> "CVLibrary",
            url  |-> <<"https://www.cv-library.co.uk/">> \o job_dash
                     \o <<"-jobs-in-">> \o loc_dash],
           [site |-> "Hays",
            url  |-> <<"https://www.hays.co.uk/job-search/">> \o job_dash
                     \o <<"-jobs-in-">> \o loc_dash \o <<"-uk">>],
           [site |-> "Breakroom",
            url  |-> <<"https://www.breakroom.cc/en-gb/">> \o job_dash
                     \o <<"-jobs-in-">> \o loc_dash] >>

----------------------------------------------------------------------------
(* Exceptions and messages *)

Exc(type, text) == [type |-> type, text |-> text]

NoExc == Exc("none", <<>>)

\* line 167
MissingKeyError ==
    Exc("RuntimeError", <<"FIRECRAWL_API_KEY", " is not set in Streamlit Secrets">>)

\* line 186
ReadTimeoutError(site, url) ==
    Exc("RuntimeError", <<"ReadTimeout", " for ", site, " (">> \o url \o <<")">>)

\* line 189
FailedError(site, e) ==
    Exc("RuntimeError", <<"Failed to scrape ", site, ": ">> \o e.text)

\* what requests raises when the read timeout of a call elapses
ReadTimeoutExc == Exc("ReadTimeout", <<"Read timed out. (read timeout=120)">>)

\* non-timeout failures of requests.post / raise_for_status
PostFailures ==
    { Exc("HTTPError", <<"500 Server Error">>),
      Exc("ConnectionError", <<"Connection aborted">>) }

\* failure of the secondary requests.get
GetFailure == Exc("ConnectionError", <<"Connection aborted">>)

\* the credential check left out
KeyCheckSkipped(k) == FALSE

\* `if not API_KEY`
KeyMissing(k) == ~k

\* `except RuntimeError` in place of `except Exception`
CatchesRuntimeErrorOnly(e) == e.type = "RuntimeError"

\* `except Exception` of run_all: every exception modelled is an Exception
Catches(e) == e.type \in {"RuntimeError", "ReadTimeout", "HTTPError",
                          "ConnectionError", "AttributeError", "JSONDecodeError"}

\* `attempt == 3` in place of `attempt == 2`
IsLastAttemptOffByOne(a) == a = MaxAttempts

\* `attempt == 2` in both handlers
IsLastAttempt(a) == a = LastAttempt

----------------------------------------------------------------------------
(* Response bodies.  A body is described by the JSON type found at each    *)
(* step of the path body -> "data" -> "extract" -> "extract"; "absent"    *)
(* means the key is missing (or its parent is no object), and list is the *)
(* record list when the deepest value on the path is a list.              *)

Body(b, d, e, i, l) == [body |-> b, data |-> d, extract |-> e, inner |-> i, list |-> l]

NoBody == Body("none", "absent", "absent", "absent", <<>>)

JobKinds == {"a", "b"}

RECURSIVE SeqsUpTo(_, _)
SeqsUpTo(S, n) ==
    IF n = 0 THEN {<<>>}
    ELSE LET shorter == SeqsUpTo(S, n - 1)
         IN  shorter \cup {Append(s, x) : s \in {t \in shorter : Len(t) = n - 1}, x \in S}

AltList(n) == [i \in 1..n |-> IF i % 2 = 1 THEN "a" ELSE "b"]

Bodies(Lists) ==
    {Body(b, "absent", "absent", "absent", <<>>) : b \in {"notjson", "list", "null"}}
    \cup {Body("obj", d, "absent", "absent", <<>>) : d \in {"absent", "null", "str", "list"}}
    \cup {Body("obj", "obj", e, "absent", <<>>) : e \in {"absent", "null", "str"}}
    \cup {Body("obj", "obj", "list", "absent", l) : l \in Lists}
    \cup {Body("obj", "obj", "obj", i, <<>>) : i \in {"absent", "null", "str", "obj"}}
    \cup {Body("obj", "obj", "obj", "list", l) : l \in Lists}

\* every record list of up to MaxRecords records
AllBodies == Bodies(SeqsUpTo(JobKinds, MaxRecords))

\* the bodies the orchestrator model is run with
RunBodies == Bodies({<<>>, <<"b", "a">>, AltList(MaxRecords)})

Val(tag, l) == [tag |-> tag, list |-> l]

\* r.json() raises on a body that is no JSON; .get raises on a non-dict
ParseException(b) ==
    IF b.body = "notjson" THEN Exc("JSONDecodeError", <<"Expecting value">>)
    ELSE Exc("AttributeError", <<"object has no attribute 'get'">>)

\* lines 176-177 raise: r.json(), data.get, data.get("data", {}).get
ParseRaises(b) == b.body # "obj" \/ b.data \notin {"absent", "obj"}

\* data.get("data", {}).get("extract", [])
ExtractOf(b) ==
    IF b.extract = "absent" THEN Val("list", <<>>)
    ELSE Val(b.extract, IF b.extract = "list" THEN b.list ELSE <<>>)

\* lines 178-179
Unwrap(b, r) ==
    IF r.tag = "obj" /\ b.inner # "absent"
    THEN Val(b.inner, IF b.inner = "list" THEN b.list ELSE <<>>)
    ELSE r

\* lines 180-181
Coerce(r) == IF r.tag # "list" THEN <<>> ELSE r.list

\* results[-n:] in place of results[:n]
TakeLast(s, n) == SubSeq(s, Len(s) - Min(n, Len(s)) + 1, Len(s))

\* results[:n]
Take(s, n) == SubSeq(s, 1, Min(n, Len(s)))

\* lines 177-182 on a body that does not raise
ParseResponse(b) == Take(Coerce(Unwrap(b, ExtractOf(b))), JobLimit)

----------------------------------------------------------------------------
(* The network call in flight *)

Call(kind, timeout, silent) == [kind |-> kind, timeout |-> timeout, silent |-> silent]

NoCall == Call("none", NoTimeout, FALSE)

----------------------------------------------------------------------------
(* State *)

\* the texts run_all is called with in the orchestrator model
SearchRequests ==
    { << <<"D", " ", "A">>, <<"L">> >>,
      << <<" ", "a", "&">>, <<"a", "\t", " ", "b">> >> }

Alphabet == {"D", "a", " ", "&"}

\* the first NSites items of an ordered mapping: the sites of the
\* orchestrator model
FirstSites(items) == SubSeq(items, 1, Min(NSites, Len(items)))

\* the items of urls the for loop of run_all visits
Sites == urls

site == Sites[idx].site
url == Sites[idx].url

InitCommon ==
    /\ apiKey \in BOOLEAN
    /\ idx = 1
    /\ out = <<>>
    /\ jobs = <<>>
    /\ spc = "idle"
    /\ attempt = 0
    /\ results = <<>>
    /\ exc = NoExc
    /\ cause = NoExc
    /\ net = NoCall
    /\ lastBody = NoBody
    /\ log = <<>>
    /\ scraped = <<>>
    /\ nPost = 0
    /\ nGet = 0

\* a call run_all(job_title, location)
Init ==
    /\ InitCommon
    /\ \E rq \in SearchRequests : job_title = rq[1] /\ location = rq[2]
    /\ urls = <<>>
    /\ pc = "start"

\* a call build_urls(job_title, location) with any short texts
InitUrls ==
    /\ InitCommon
    /\ job_title \in SeqsUpTo(Alphabet, MaxLen)
    /\ location \in SeqsUpTo(Alphabet, MaxLen)
    /\ urls = <<>>
    /\ pc = "start"

\* a call scrape_jobs(url, site) for the first item of build_urls
InitScrape ==
    /\ InitCommon
    /\ \E rq \in SearchRequests : job_title = rq[1] /\ location = rq[2]
    /\ urls = FirstSites(build_urls(job_title, location))
    /\ pc = "call"

runVars == <<pc, idx, out, jobs, scraped, nGet>>
inputVars == <<apiKey, job_title, location, urls>>

----------------------------------------------------------------------------
(* scrape_jobs *)

\* lines 165-170: the call, the credential check, headers and payload
ScrapeCall ==
    /\ pc = "call"
    /\ spc = "idle"
    /\ pc' = "scraping"
    /\ log' = <<>>
    /\ lastBody' = NoBody
    /\ results' = <<>>
    /\ cause' = NoExc
    /\ attempt' = 0
    /\ IF KeyMissing(apiKey)
       THEN spc' = "raised" /\ exc' = MissingKeyError
       ELSE spc' = "loop" /\ exc' = NoExc
    /\ UNCHANGED <<idx, out, jobs, scraped, nGet, nPost, net>>
    /\ UNCHANGED inputVars

\* lines 172-174: the loop head; a next attempt issues the POST with
\* timeout=120, an exhausted range falls off the function (returns None)
LoopHead ==
    /\ spc = "loop"
    /\ IF attempt < MaxAttempts
       THEN /\ \E silent \in BOOLEAN : net' = Call("POST", PostTimeoutSecs, silent)
            /\ nPost' = nPost + 1
            /\ log' = Append(log, "post")
            /\ lastBody' = NoBody
            /\ spc' = "post"
       ELSE /\ spc' = "none"
            /\ UNCHANGED <<net, nPost, log, lastBody>>
    /\ UNCHANGED <<attempt, results, exc, cause>>
    /\ UNCHANGED runVars
    /\ UNCHANGED inputVars

\* lines 174-182: a 2xx response arrives and is normalised
PostRespond(B) ==
    /\ spc = "post"
    /\ net.kind = "POST"
    /\ ~net.silent
    /\ \E b \in B :
        /\ lastBody' = b
        /\ IF ParseRaises(b)
           THEN /\ spc' = "except"
                /\ exc' = ParseException(b)
                /\ log' = Append(log, "error")
                /\ UNCHANGED results
           ELSE /\ spc' = "returned"
                /\ results' = ParseResponse(b)
                /\ log' = Append(log, "ok")
                /\ UNCHANGED exc
    /\ net' = NoCall
    /\ UNCHANGED <<attempt, cause, nPost>>
    /\ UNCHANGED runVars
    /\ UNCHANGED inputVars

\* lines 174-175: requests.post or raise_for_status raises (no timeout)
PostFail ==
    /\ spc = "post"
    /\ net.kind = "POST"
    /\ ~net.silent
    /\ \E e \in PostFailures : exc' = e
    /\ spc' = "except"
    /\ log' = Append(log, "error")
    /\ net' = NoCall
    /\ UNCHANGED <<attempt, results, cause, nPost, lastBody>>
    /\ UNCHANGED runVars
    /\ UNCHANGED inputVars

\* lines 183-186
HandleReadTimeout ==
    /\ spc = "except"
    /\ exc.type = "ReadTimeout"
    /\ log' = Append(log, "sleep")
    /\ IF IsLastAttempt(attempt)
       THEN /\ spc' = "raised"
            /\ cause' = exc
            /\ exc' = ReadTimeoutError(site, url)
            /\ UNCHANGED attempt
       ELSE /\ spc' = "loop"
            /\ attempt' = attempt + 1
            /\ exc' = NoExc
            /\ UNCHANGED cause
    /\ UNCHANGED <<results, net, nPost, lastBody>>
    /\ UNCHANGED runVars
    /\ UNCHANGED inputVars

\* lines 187-189
HandleException ==
    /\ spc = "except"
    /\ exc.type # "ReadTimeout"
    /\ IF IsLastAttempt(attempt)
       THEN /\ spc' = "raised"
            /\ cause' = exc
            /\ exc' = FailedError(site, exc)
            /\ UNCHANGED attempt
       ELSE /\ spc' = "loop"
            /\ attempt' = attempt + 1
            /\ exc' = NoExc
            /\ UNCHANGED cause
    /\ UNCHANGED <<results, net, nPost, lastBody, log>>
    /\ UNCHANGED runVars
    /\ UNCHANGED inputVars

----------------------------------------------------------------------------
(* run_all *)

\* lines 214-217: the except clause of the per-site try
HandlerEffect(e) ==
    IF Catches(e)
    THEN /\ out' = Append(out, [site |-> site, url |-> url, jobs |-> <<>>,
                                hasError |-> TRUE, error |-> e.text])
         /\ idx' = idx + 1
         /\ pc' = "loop"
    ELSE /\ pc' = "escaped"
         /\ UNCHANGED <<out, idx>>

\* lines 41-54: build_urls applied on its own
BuildUrls ==
    /\ pc = "start"
    /\ urls' = build_urls(job_title, location)
    /\ pc' = "built"
    /\ UNCHANGED <<idx, out, jobs, scraped, nGet>>
    /\ UNCHANGED <<spc, attempt, results, exc, cause, net, lastBody, log, nPost>>
    /\ UNCHANGED <<apiKey, job_title, location>>

\* lines 193-194
RunAllStart ==
    /\ pc = "start"
    /\ urls' = FirstSites(build_urls(job_title, location))
    /\ out' = <<>>
    /\ pc' = "loop"
    /\ UNCHANGED <<idx, jobs, scraped, nGet>>
    /\ UNCHANGED <<spc, attempt, results, exc, cause, net, lastBody, log, nPost>>
    /\ UNCHANGED <<apiKey, job_title, location>>

\* lines 197-202 and 219-221: next item of urls.items(), or return out
SiteLoop ==
    /\ pc = "loop"
    /\ pc' = IF idx <= Len(Sites) THEN "call" ELSE "done"
    /\ UNCHANGED <<idx, out, jobs, scraped, nGet>>
    /\ UNCHANGED <<spc, attempt, results, exc, cause, net, lastBody, log, nPost>>
    /\ UNCHANGED inputVars

\* lines 202-205: scrape_jobs returned; the secondary GET is issued,
\* requests.get(url) with no timeout
ScrapeReturn ==
    /\ pc = "scraping"
    /\ spc \in {"returned", "none"}
    /\ jobs' = results
    /\ scraped' = Append(scraped, spc)
    /\ \E silent \in BOOLEAN : net' = Call("GET", NoTimeout, silent)
    /\ nGet' = nGet + 1
    /\ pc' = "get"
    /\ spc' = "idle"
    /\ lastBody' = NoBody
    /\ UNCHANGED <<idx, out, attempt, results, exc, cause, log, nPost>>
    /\ UNCHANGED inputVars

\* lines 202, 214-217: scrape_jobs raised
ScrapeRaise ==
    /\ pc = "scraping"
    /\ spc = "raised"
    /\ HandlerEffect(exc)
    /\ scraped' = Append(scraped, spc)
    /\ spc' = "idle"
    /\ lastBody' = NoBody
    /\ UNCHANGED <<jobs, nGet, attempt, results, exc, cause, net, log, nPost>>
    /\ UNCHANGED inputVars

\* lines 205-212: the page arrives, with or without the "no results" text
GetRespond ==
    /\ pc = "get"
    /\ net.kind = "GET"
    /\ ~net.silent
    /\ \E marker \in BOOLEAN :
        LET kept == IF marker THEN <<>> ELSE jobs
        IN  /\ jobs' = kept
            /\ out' = Append(out, [site |-> site, url |-> url, jobs |-> kept,
                                   hasError |-> FALSE, error |-> <<>>])
    /\ idx' = idx + 1
    /\ pc' = "loop"
    /\ net' = NoCall
    /\ UNCHANGED <<scraped, nGet>>
    /\ UNCHANGED <<spc, attempt, results, exc, cause, lastBody, log, nPost>>
    /\ UNCHANGED inputVars

\* lines 205, 214-217: requests.get raises
GetFail ==
    /\ pc = "get"
    /\ net.kind = "GET"
    /\ ~net.silent
    /\ HandlerEffect(GetFailure)
    /\ net' = NoCall
    /\ UNCHANGED <<jobs, scraped, nGet>>
    /\ UNCHANGED <<spc, attempt, results, exc, cause, lastBody, log, nPost>>
    /\ UNCHANGED inputVars

\* the per-call timeout of a call to a server that does not answer:
\* timeout=120 on the POST (line 174), none on the GET (line 205)
NetTimeout ==
    /\ net.kind # "none"
    /\ net.silent
    /\ net.timeout # NoTimeout
    /\ net' = NoCall
    /\ IF net.kind = "POST"
       THEN /\ spc' = "except"
            /\ exc' = ReadTimeoutExc
            /\ log' = Append(log, "timeout")
            /\ UNCHANGED <<pc, idx, out>>
       ELSE /\ HandlerEffect(ReadTimeoutExc)
            /\ UNCHANGED <<spc, exc, log>>
    /\ UNCHANGED <<jobs, scraped, nGet, attempt, results, cause, lastBody, nPost>>
    /\ UNCHANGED inputVars

Next ==
    \/ RunAllStart
    \/ SiteLoop
    \/ ScrapeCall
    \/ LoopHead
    \/ PostRespond(RunBodies)
    \/ PostFail
    \/ NetTimeout
    \/ HandleReadTimeout
    \/ HandleException
    \/ ScrapeReturn
    \/ ScrapeRaise
    \/ GetRespond
    \/ GetFail

Spec == Init /\ [][Next]_vars

\* run_all is sequential code: it takes its next step whenever it has one
FairSpec == Spec /\ WF_vars(Next)

\* one call of scrape_jobs, over every response body
NextScrape ==
    \/ ScrapeCall
    \/ LoopHead
    \/ PostRespond(AllBodies)
    \/ PostFail
    \/ NetTimeout
    \/ HandleReadTimeout
    \/ HandleException

ScrapeSpec == InitScrape /\ [][NextScrape]_vars

\* build_urls over every pair of short texts
UrlSpec == InitUrls /\ [][BuildUrls]_vars

----------------------------------------------------------------------------
(* Properties *)

Count(s, e) == Cardinality({i \in DOMAIN s : s[i] = e})

Failures(l) == Count(l, "timeout") + Count(l, "error")

Keys(items) == [i \in DOMAIN items |-> items[i].site]

\* C1: run_all lets no exception escape; its out holds one entry per site
\* visited so far, with the keys (and URLs) of build_urls in the same order,
\* and when run_all returns, out has an entry for every site, whatever
\* happened at the earlier sites.
C1_RunAllIsolatesSites ==
    /\ pc # "escaped"
    /\ Len(out) <= Len(FirstSites(build_urls(job_title, location)))
    /\ Keys(out) = SubSeq(Keys(build_urls(job_title, location)), 1, Len(out))
    /\ \A i \in DOMAIN out : out[i].url = build_urls(job_title, location)[i].url
    /\ pc \in {"call", "scraping", "get"} => Len(out) = idx - 1
    /\ pc = "done" => Keys(out) = Keys(FirstSites(build_urls(job_title, location)))

\* run_all returned after a failure at the first site and a populated
\* second site
C1_Witness ==
    /\ pc = "done"
    /\ Len(out) >= 2
    /\ out[1].hasError
    /\ ~out[2].hasError
    /\ out[2].jobs # <<>>

\* C2: a site's result carries an error exactly when scrape_jobs failed for
\* that site; after a successful scrape_jobs the result is {url, jobs}.
C2_ErrorIffScrapeFailed ==
    \A i \in DOMAIN out :
        /\ out[i].hasError <=> scraped[i] = "raised"
        /\ out[i].hasError => out[i].jobs = <<>> /\ out[i].error # <<>>

\* C3: with a credential, scrape_jobs issues at most 3 POSTs, none after a
\* successful one, returns the result of the successful attempt, raises
\* exactly when three attempts failed, and never falls off its loop.
C3_BoundedRetry ==
    apiKey =>
        /\ Count(log, "post") <= 3
        /\ \A i \in DOMAIN log : log[i] = "ok" => i = Len(log)
        /\ spc # "none"
        /\ spc = "returned" =>
             /\ log # <<>>
             /\ log[Len(log)] = "ok"
             /\ lastBody # NoBody
             /\ results = ParseResponse(lastBody)
        /\ spc = "raised" => Failures(log) = 3 /\ Count(log, "ok") = 0
        /\ Failures(log) = 3 => spc \in {"except", "raised", "idle"}

\* two read-timeouts, then a success on the third attempt
C3_Witness ==
    /\ apiKey
    /\ spc = "returned"
    /\ log = <<"post", "timeout", "sleep", "post", "timeout", "sleep", "post", "ok">>
    /\ results # <<>>

\* C4: the error raised after the third failed attempt carries the site
\* name, the URL and the underlying cause.
C4_ErrorCarriesSiteUrlCause ==
    (spc = "raised" /\ cause # NoExc) =>
        /\ Contains(exc.text, <<urls[idx].site>>)
        /\ Contains(exc.text, urls[idx].url)
        /\ Contains(exc.text, cause.text) \/ Contains(exc.text, <<cause.type>>)

\* C5: without a credential scrape_jobs raises at once, no POST and no GET
\* is ever issued, and every result has no jobs and an error naming the
\* missing credential.
C5_NoCredentialNoNetwork ==
    ~apiKey =>
        /\ nPost = 0
        /\ nGet = 0
        /\ net = NoCall
        /\ log = <<>>
        /\ spc \in {"idle", "raised"}
        /\ \A i \in DOMAIN out :
             /\ out[i].jobs = <<>>
             /\ out[i].hasError
             /\ Contains(out[i].error, <<"FIRECRAWL_API_KEY">>)
        /\ pc = "done" => Len(out) = Len(Sites)

\* run_all returned without a credential
C5_Witness ==
    /\ ~apiKey
    /\ pc = "done"
    /\ Len(out) = NSites
    /\ out # <<>>

\* the record list sits under data.extract or under data.extract.extract
ListBody(b) ==
    /\ b.body = "obj"
    /\ b.data = "obj"
    /\ b.extract = "list" \/ (b.extract = "obj" /\ b.inner = "list")

\* C6: on a response whose record list L sits under data.extract or under
\* data.extract.extract, scrape_jobs returns the first min(10, Len(L))
\* records of L in order; it never returns more than 10 records.
C6_FirstTenInOrder ==
    /\ spc = "returned" => Len(results) <= 10
    /\ ListBody(lastBody) =>
         /\ spc = "returned"
         /\ Len(results) = Min(10, Len(lastBody.list))
         /\ \A i \in DOMAIN results : results[i] = lastBody.list[i]

\* more than 10 records under the wrapper, not all alike
C6_Witness ==
    /\ spc = "returned"
    /\ lastBody.inner = "list"
    /\ Len(lastBody.list) > 10
    /\ lastBody.list[1] # lastBody.list[2]
    /\ Len(results) = 10

\* a successful response with an unexpected shape
Malformed(b) ==
    \/ b.body \in {"list", "null"}
    \/ b.body = "obj" /\ ~ListBody(b)

\* C7: on a successful response with an unexpected shape scrape_jobs returns
\* an empty list on that attempt; it neither raises nor retries.
C7_MalformedDegradesToEmpty ==
    Malformed(lastBody) => spc = "returned" /\ results = <<>>

\* reserved characters a user text can hold
Reserved == {"&", "/", "?", "#", "="}

\* urllib.parse.quote_plus on the characters of the model
QuoteChar(c) ==
    CASE c = " "  -> <<"+">>
      [] c = "\t" -> <<"%", "0", "9">>
      [] c = "&"  -> <<"%", "2", "6">>
      [] c = "/"  -> <<"%", "2", "F">>
      [] OTHER    -> <<c>>

RECURSIVE QuotePlus(_)
QuotePlus(s) == IF s = <<>> THEN <<>> ELSE QuoteChar(Head(s)) \o QuotePlus(Tail(s))

\* the tokens of the templates: what build_urls yields for empty texts
TemplateTokens ==
    UNION { {e.url[i] : i \in DOMAIN e.url} :
            e \in {build_urls(<<>>, <<>>)[k] : k \in DOMAIN build_urls(<<>>, <<>>)} }

IsInputToken(t) == t \notin TemplateTokens

\* what a URL holds besides its template
Substituted(u) == SelectSeq(u, IsInputToken)

QuerySites == {"Adzuna", "Indeed"}

\* C8: every URL holds the user text in its site's encoding: query-string
\* sites the percent-encoded trimmed text, path sites the trimmed, lowercased
\* text with whitespace runs as single hyphens; no URL holds a raw space or a
\* raw reserved character of the input.
C8_UrlsEncoded ==
    \A k \in DOMAIN urls :
        /\ Substituted(urls[k].url) =
             IF urls[k].site \in QuerySites
             THEN QuotePlus(Strip(job_title)) \o QuotePlus(Strip(location))
             ELSE hyphenate(job_title) \o hyphenate(location)
        /\ \A i \in DOMAIN urls[k].url :
             urls[k].url[i] \notin (Whitespace \cup Reserved)

\* C9: a sleep follows a read-timeout and is followed by another POST; any
\* other failure is followed by the next POST with no sleep.
C9_SleepOnlyBetweenAttempts ==
    \A i \in DOMAIN log :
        /\ log[i] = "sleep" =>
             /\ i > 1 /\ log[i - 1] = "timeout"
             /\ IF i = Len(log) THEN spc = "loop" ELSE log[i + 1] = "post"
        /\ (log[i] = "error" /\ i < Len(log)) => log[i + 1] = "post"

\* C10: every network call ends, by a response or by its own timeout, so
\* run_all eventually returns.
C10_RunAllEventuallyReturns == <>(pc = "done")

====
